---- MODULE Spec2Model ----
(***************************************************************************)
(* A model of the snapshot pipeline of the student-finance backend:        *)
(* intake (parse -> reconcile profile -> validate -> score -> analyse ->    *)
(* summarise -> persist), teacher chat with its same-day merge rule, the   *)
(* profile and debug routes, and the guarded generation services.          *)
(*                                                                         *)
(* Conventions.  Money is in whole dollars.  Probabilities and shares are  *)
(* integers in thousandths (0.35 is 350).  Python's None / SQL NULL is the  *)
(* integer None.  A timestamp is a tick of half a day; the UTC date and the *)
(* server-local date of a tick are computed by UtcDate and LocalDate.      *)
(* A generated text is a record of the properties the code inspects.       *)
(***************************************************************************)
EXTENDS Integers, Sequences, FiniteSets, TLC

\* ------------------------------------------------------------------ bounds
MaxSnapshots == 3
MaxInteractions == 2
MaxTick == 2

\* The next-question cycles of one survey session.
MaxCycles == 18

\* The load attempts of one process.
MaxLoadAttempts == 6

\* --------------------------------------------------------------- constants
None == -999
MAX_FIELD_VALUE == 1000000

\* ---------------------------------------------------------- field taxonomy
PROFILE_FIELDS == <<"age", "gender", "year_in_school", "major", "preferred_payment_method">>

FINANCIAL_FIELDS ==
    <<"monthly_income", "financial_aid", "tuition", "housing", "food", "transportation",
      "books_supplies", "entertainment", "personal_care", "technology", "health_wellness",
      "miscellaneous">>

REQUIRED_FIELDS == PROFILE_FIELDS \o FINANCIAL_FIELDS

SeqRange(s) == {s[i] : i \in 1..Len(s)}

ProfileKeys == SeqRange(PROFILE_FIELDS)

MoneyKeys == SeqRange(FINANCIAL_FIELDS)

FieldNames == ProfileKeys \cup MoneyKeys

\* ------------------------------------------------------------ SnapshotData
\* A validation that accepts every field set that has the 17 fields.
AnyData(d) == FieldNames \subseteq DOMAIN d

\* SnapshotData(**d) accepts d: every field present, inside its declared range.
SnapshotDataValid(d) ==
    /\ FieldNames \subseteq DOMAIN d
    /\ d["age"] >= 16 /\ d["age"] <= 100
    /\ d["gender"] >= 0 /\ d["gender"] <= 3
    /\ d["year_in_school"] >= 0 /\ d["year_in_school"] <= 4
    /\ d["major"] >= 0 /\ d["major"] <= 8
    /\ d["preferred_payment_method"] >= 0 /\ d["preferred_payment_method"] <= 3
    /\ \A f \in MoneyKeys : d[f] >= 0

\* The validated model keeps the 17 declared fields and drops any other key.
SnapshotData(d) == [f \in FieldNames |-> d[f]]

\* ---------------------------------------------------------------- User
has_profile(user) == \A k \in ProfileKeys : user[k] # None

NoProfile == [k \in ProfileKeys |-> None]

\* ------------------------------------------------------------- SafetyGuard
\* validate_financial_data: (is_valid, error_message); only is_valid is modelled.
validate_financial_data(data) ==
    /\ \A f \in MoneyKeys :
          f \in DOMAIN data => (data[f] >= 0 /\ data[f] <= MAX_FIELD_VALUE)
    /\ "age" \in DOMAIN data => (data["age"] >= 16 /\ data["age"] <= 100)

\* check_output_safety: is_safe.  text.safe says that no harmful pattern and no
\* advice phrasing on a restricted topic occurs in the text.
check_output_safety(text) == text.safe

\* validate_json_response(text, required).  text.fmt is what json.loads makes of
\* the text after the optional code fence is stripped; text.keys are the keys of
\* a parsed object, or the elements of a parsed list.
\*   exc  the exception that escapes ("" for none)
\*   ok   is_valid
validate_json_response(text, required) ==
    IF text.fmt = "garbage"
    THEN [exc |-> "", ok |-> FALSE]
    ELSE IF text.fmt \in {"null", "number"} /\ required # {}
    THEN [exc |-> "TypeError", ok |-> FALSE]
    ELSE [exc |-> "", ok |-> required \subseteq text.keys]

\* sanitize_user_input.  A message is a sequence of runs of characters:
\*   [kind |-> "text", len |-> n]     n characters of ordinary text
\*   [kind |-> "space", len |-> n]    n characters of whitespace
\*   [kind |-> "phrase", len |-> n]   an occurrence of an injection pattern, of
\*                                    the n characters of the pattern
\* Runs of text hold no part of a pattern and no whitespace at either end.
MAX_USER_MESSAGE_LENGTH == 2000

injection_patterns ==
    <<"ignore previous instructions", "disregard all prior", "forget everything",
      "you are now", "new instructions:", "system prompt:">>

Text(n) == [kind |-> "text", len |-> n]

Space(n) == [kind |-> "space", len |-> n]

Phrase(i) == [kind |-> "phrase", len |-> Len(injection_patterns[i])]

\* "..."
Ellipsis == Text(Len("..."))

\* "[removed]"
Removed == Text(Len("[removed]"))

RECURSIVE Length(_)
\* len(message)
Length(message) ==
    IF message = <<>> THEN 0 ELSE Head(message).len + Length(Tail(message))

RECURSIVE Slice(_, _)
\* message[:n].  A pattern cut short is text that matches no pattern.
Slice(message, n) ==
    IF message = <<>> \/ n = 0 THEN <<>>
    ELSE LET h == Head(message)
         IN  IF h.len <= n THEN <<h>> \o Slice(Tail(message), n - h.len)
             ELSE <<[kind |-> IF h.kind = "space" THEN "space" ELSE "text", len |-> n]>>

\* A long message marked with the ellipsis and not cut.
mark_long(message) ==
    IF Length(message) > MAX_USER_MESSAGE_LENGTH THEN message \o <<Ellipsis>> ELSE message

\* if len(message) > MAX_USER_MESSAGE_LENGTH: message = message[:MAX_USER_MESSAGE_LENGTH] + "..."
truncate(message) ==
    IF Length(message) > MAX_USER_MESSAGE_LENGTH
    THEN Slice(message, MAX_USER_MESSAGE_LENGTH) \o <<Ellipsis>>
    ELSE message

\* re.sub(pattern, '[removed]', message, flags=re.IGNORECASE), for every pattern
remove_injections(message) ==
    [i \in 1..Len(message) |->
        IF message[i].kind = "phrase" THEN Removed ELSE message[i]]

RECURSIVE lstrip(_)
lstrip(message) ==
    IF message # <<>> /\ Head(message).kind = "space" THEN lstrip(Tail(message)) ELSE message

RECURSIVE rstrip(_)
rstrip(message) ==
    IF message # <<>> /\ message[Len(message)].kind = "space"
    THEN rstrip(SubSeq(message, 1, Len(message) - 1))
    ELSE message

\* message.strip()
strip(message) == lstrip(rstrip(message))

sanitize_user_input(message) ==
    IF message = <<>> THEN <<>>
    ELSE strip(remove_injections(truncate(message)))

\* --------------------------------------------------------------- Analytics
\* The balance with its sign kept.
Signed(x) == x

\* abs
Abs(x) == IF x < 0 THEN -x ELSE x

\* round(n / d, 3) in thousandths, d > 0, n >= 0
Round3(n, d) == (2000 * n + d) \div (2 * d)

\* The spending without the miscellaneous category.
NineCategories(data) ==
    data["tuition"] + data["housing"] + data["food"] + data["transportation"]
    + data["books_supplies"] + data["entertainment"] + data["personal_care"]
    + data["technology"] + data["health_wellness"]

TotalSpending(data) ==
    data["tuition"] + data["housing"] + data["food"] + data["transportation"]
    + data["books_supplies"] + data["entertainment"] + data["personal_care"]
    + data["technology"] + data["health_wellness"] + data["miscellaneous"]

\* Entertainment alone.
OnlyEntertainment(data) == data["entertainment"]

Discretionary(data) ==
    data["entertainment"] + data["personal_care"] + data["miscellaneous"]

\* A share that divides by the resources whenever they are not negative, and
\* takes the whole where there are none.
ShareOfAny(x, total_resources) ==
    IF total_resources > 0 THEN Round3(x, total_resources) ELSE 1000

\* if total_resources > 0: round(x / total_resources, 3) else: 0.0
Share(x, total_resources) ==
    IF total_resources > 0 THEN Round3(x, total_resources) ELSE 0

compute(data) ==
    LET total_resources == data["monthly_income"] + data["financial_aid"]
        total_spending == TotalSpending(data)
        discretionary == Discretionary(data)
        net_balance == total_resources - total_spending
        is_overspending == net_balance < 0
        share(x) == Share(x, total_resources)
    IN  [total_resources |-> total_resources,
         total_spending |-> total_spending,
         net_balance |-> net_balance,
         is_overspending |-> is_overspending,
         overspending_amount |-> IF is_overspending THEN Abs(net_balance) ELSE 0,
         savings_potential |-> IF net_balance > 0 THEN net_balance ELSE 0,
         food_share |-> share(data["food"]),
         housing_share |-> share(data["housing"]),
         entertainment_share |-> share(data["entertainment"]),
         discretionary_share |-> share(discretionary),
         tuition_share |-> share(data["tuition"])]

\* --------------------------------------------------------------- RiskScorer
Min(a, b) == IF a < b THEN a ELSE b

Max(a, b) == IF a > b THEN a ELSE b

\* Both files are there, whether or not they load.
files_exist(artifacts) == artifacts # "absent"

\* _load_models on a fresh service: _models_loaded afterwards.
\* artifacts: "present" (both files load), "absent" (a file is missing),
\* "corrupt" (joblib.load raises).
load_models(artifacts) == artifacts = "present"

\* _predict_with_models.  env.proba is the classifier's probability of the
\* positive class, env.sigmoid the logistic transform of the regressor's output.
predict_with_models(env) ==
    [overspending_prob |-> Min(850, Max(50, env.sigmoid)),
     financial_stress_prob |-> env.proba]

\* _mock_predict.  env.jo and env.js are the two draws of random.uniform(-0.05, 0.05).
mock_predict(data, env) ==
    LET total_income == data["monthly_income"] + data["financial_aid"]
        total_spending == TotalSpending(data)
        discretionary == Discretionary(data)
        \* spending_ratio >= n/100, with spending_ratio = 2.0 when there is no income
        ratio_ge(n) == IF total_income = 0 THEN 200 >= n
                       ELSE 100 * total_spending >= n * total_income
        ratio_gt(n) == IF total_income = 0 THEN 200 > n
                       ELSE 100 * total_spending > n * total_income
        over0 == IF ratio_ge(130) THEN 700
                 ELSE IF ratio_ge(110) THEN 500
                 ELSE IF ratio_ge(100) THEN 350
                 ELSE IF ratio_ge(90) THEN 200
                 ELSE 100
        over1 == IF total_income > 0
                 THEN IF 10 * discretionary > 3 * total_income THEN Min(850, over0 + 100)
                      ELSE IF 10 * discretionary > 2 * total_income THEN Min(850, over0 + 50)
                      ELSE over0
                 ELSE over0
        stress0 == IF total_income < 800 THEN 700
                   ELSE IF total_income < 1200 THEN 500
                   ELSE IF total_income < 1800 THEN 350
                   ELSE 200
        stress1 == IF ratio_gt(100) THEN Min(950, stress0 + 200)
                   ELSE IF ratio_gt(95) THEN Min(950, stress0 + 100)
                   ELSE stress0
        stress2 == IF data["year_in_school"] >= 3 THEN Min(950, stress1 + 50) ELSE stress1
    IN  [overspending_prob |-> Max(50, Min(950, over1 + env.jo)),
         financial_stress_prob |-> Max(50, Min(950, stress2 + env.js))]

predict(data, env) ==
    IF load_models(env.artifacts) THEN predict_with_models(env) ELSE mock_predict(data, env)

\* ------------------------------------------------------ guarded generation
\* The result of a service call:
\*   exc     the exception that escapes the call ("" for none)
\*   out     the value returned
\*   stages  the guard stages the call went through, in order
Result(exc, out, stages) == [exc |-> exc, out |-> out, stages |-> stages]

\* ------------------------------------------------------------- Summarizer
SummaryRequired == {"summary_paragraph", "key_points"}

GeneratedSummary == [kind |-> "generated", amount |-> 0, key_points |-> <<>>]

\* _generate_fallback_summary: derived from the analytics alone.
generate_fallback_summary(analytics) ==
    [kind |-> IF analytics.net_balance < 0 THEN "deficit" ELSE "surplus",
     amount |-> IF analytics.net_balance < 0 THEN Abs(analytics.net_balance)
                ELSE analytics.net_balance,
     key_points |-> <<analytics.total_resources, analytics.total_spending,
                      analytics.net_balance>>]

\* _summarize_with_claude.  gen is the behaviour of messages.create and the text
\* it returns.
summarize_with_claude(gen, analytics) ==
    LET fallback == generate_fallback_summary(analytics)
        s1 == <<"generate">>
        s2 == <<"generate", "check_output_safety">>
        s3 == <<"generate", "check_output_safety", "validate_json_response">>
    IN  IF gen.raises THEN Result("APIError", fallback, s1)
        ELSE IF ~check_output_safety(gen) THEN Result("", fallback, s2)
        ELSE LET v == validate_json_response(gen, SummaryRequired)
             IN  IF v.exc # "" THEN Result(v.exc, fallback, s3)
                 ELSE IF ~v.ok THEN Result("", fallback, s3)
                 \* parsed["summary_paragraph"] on a list
                 ELSE IF gen.fmt # "object" THEN Result("TypeError", fallback, s3)
                 \* SummaryOutput(...) rejects a field of the wrong type
                 ELSE IF ~gen.typed THEN Result("ValidationError", fallback, s3)
                 ELSE Result("", GeneratedSummary, s3)

\* summarize without the try around _summarize_with_claude
summarize_unguarded(api_key, gen, data, analytics) ==
    LET fallback == generate_fallback_summary(analytics)
    IN  IF ~validate_financial_data(data) THEN Result("", fallback, <<>>)
        ELSE IF api_key THEN summarize_with_claude(gen, analytics)
        ELSE Result("", fallback, <<>>)

\* summarize
summarize(api_key, gen, data, analytics) ==
    LET fallback == generate_fallback_summary(analytics)
    IN  IF ~validate_financial_data(data) THEN Result("", fallback, <<>>)
        ELSE IF api_key
        THEN LET r == summarize_with_claude(gen, analytics)
             IN  IF r.exc # "" THEN Result("", fallback, r.stages) ELSE r
        ELSE Result("", fallback, <<>>)

\* ----------------------------------------------------------------- Teacher
TeacherRequired == {"response_type", "priority_issues", "explanation"}

FallbackTeacherOutput == [kind |-> "fallback", field_updates |-> <<>>]

\* def _generate_fallback_response(self): the parameters it takes besides self
FallbackParams == 0

\* every call site passes snapshot, ml_output, analytics, the message and the two
\* previous values
FallbackArgs == 6

\* A call of _generate_fallback_response as the call sites write it.
generate_fallback_response(stages) ==
    IF FallbackArgs = FallbackParams
    THEN Result("", FallbackTeacherOutput, stages)
    ELSE Result("TypeError", FallbackTeacherOutput, stages)

\* _respond_with_claude
respond_with_claude(gen) ==
    LET s1 == <<"sanitize_user_input", "generate">>
        s2 == s1 \o <<"check_output_safety">>
        s3 == s2 \o <<"validate_json_response">>
    IN  IF gen.raises THEN Result("APIError", FallbackTeacherOutput, s1)
        ELSE IF ~check_output_safety(gen) THEN generate_fallback_response(s2)
        ELSE LET v == validate_json_response(gen, TeacherRequired)
             IN  IF v.exc # "" THEN Result(v.exc, FallbackTeacherOutput, s3)
                 ELSE IF ~v.ok THEN generate_fallback_response(s3)
                 \* parsed.get(...) on a list
                 ELSE IF gen.fmt # "object" THEN Result("AttributeError", FallbackTeacherOutput, s3)
                 \* FieldUpdate(...) / TeacherOutput(...) reject a field of the wrong type
                 ELSE IF ~gen.typed THEN Result("ValidationError", FallbackTeacherOutput, s3)
                 ELSE Result("", [kind |-> "generated", field_updates |-> gen.field_updates], s3)

generate_response(api_key, gen, data) ==
    LET s0 == <<"sanitize_user_input">>
    IN  IF ~validate_financial_data(data) THEN generate_fallback_response(s0)
        ELSE IF api_key
        THEN LET r == respond_with_claude(gen)
             IN  IF r.exc # "" THEN generate_fallback_response(r.stages) ELSE r
        ELSE generate_fallback_response(s0)

\* ------------------------------------------------------------------ Parser
\* _parse_with_claude: the parsed value, or the exception.
\*   kind  "null" | "number" | "list" | "object": what json.loads returned
parse_with_claude(gen) ==
    IF gen.raises THEN [exc |-> "APIError", kind |-> "null", obj |-> gen.obj]
    ELSE IF gen.fmt = "garbage" THEN [exc |-> "ValueError", kind |-> "null", obj |-> gen.obj]
    ELSE [exc |-> "", kind |-> gen.fmt, obj |-> gen.obj]

Index(seq, x) == CHOOSE i \in 1..Len(seq) : seq[i] = x

\* the position in PROFILE_FIELDS of the first profile key the dict lacks
FirstMissing(obj) ==
    LET miss == {i \in 1..Len(PROFILE_FIELDS) : PROFILE_FIELDS[i] \notin DOMAIN obj}
    IN  IF miss = {} THEN Len(PROFILE_FIELDS) + 1
        ELSE CHOOSE i \in miss : \A j \in miss : i <= j

\* the parsed dict left as it is
KeepParsed(obj, user) == obj

\* parsed[k] = user.k for the five profile fields
OverrideProfile(obj, user) ==
    [k \in DOMAIN obj \cup ProfileKeys |-> IF k \in ProfileKeys THEN user[k] ELSE obj[k]]

\* user.k = parsed[k], field after field, up to the first key parsed lacks
CaptureProfile(user, obj) ==
    [k \in ProfileKeys |->
        IF Index(PROFILE_FIELDS, k) < FirstMissing(obj) THEN obj[k] ELSE user[k]]

\* Profile reconciliation without the has_profile test: what was parsed is
\* written to the Profile.
ReconcileParsedWins(user, obj) == [parsed |-> obj, user |-> CaptureProfile(user, obj)]

\* Profile reconciliation: a complete Profile wins over what was parsed, any
\* other Profile takes what was parsed.
Reconcile(user, obj) ==
    IF has_profile(user)
    THEN [parsed |-> OverrideProfile(obj, user), user |-> user]
    ELSE [parsed |-> obj, user |-> CaptureProfile(user, obj)]

\* parse(raw_answers, user).
\*   detail  which ValueError: "parse" or "range"
\*   data    the SnapshotData returned
\*   user    the fields of the User object of this session after the call
parse(api_key, gen, user) ==
    LET stages == <<"generate">>
        raised(exc, detail, u, s) ==
            [exc |-> exc, detail |-> detail, data |-> [f \in FieldNames |-> None],
             user |-> u, stages |-> s]
    IN  IF ~api_key THEN raised("RuntimeError", "", user, <<>>)
        ELSE LET r == parse_with_claude(gen)
             IN  IF r.exc # "" THEN raised(r.exc, "parse", user, stages)
                 ELSE IF r.kind = "null" THEN raised("ValueError", "parse", user, stages)
                 \* parsed["age"] on a number or a list
                 ELSE IF r.kind # "object" THEN raised("TypeError", "", user, stages)
                 ELSE LET rec == Reconcile(user, r.obj)
                      IN  IF ~has_profile(user) /\ FirstMissing(r.obj) <= Len(PROFILE_FIELDS)
                          THEN raised("KeyError", "", rec.user, stages)
                          ELSE IF SnapshotDataValid(rec.parsed)
                          THEN [exc |-> "", detail |-> "", data |-> SnapshotData(rec.parsed),
                                user |-> rec.user, stages |-> stages]
                          ELSE raised("ValueError", "range", rec.user, stages)

\* ------------------------------------------------------------------ Survey
\* The number of arguments _generate_mock_question takes after self, and the
\* number its three call sites pass.
MockParams == 2

MockArgs == 3

CompleteQuestion == [field |-> "", is_complete |-> TRUE, progress |-> 1000, source |-> "complete"]

Missing(required, collected) ==
    LET open(f) == f \notin SeqRange(collected) IN SelectSeq(required, open)

\* len(collected_fields) / len(required), in thousandths
Progress(collected, required) == (1000 * Len(collected)) \div Len(required)

\* _generate_mock_question
generate_mock_question(collected, hp) ==
    LET required == IF hp THEN FINANCIAL_FIELDS ELSE REQUIRED_FIELDS
        missing == Missing(required, collected)
    IN  IF missing = <<>> THEN CompleteQuestion
        ELSE [field |-> missing[1], is_complete |-> FALSE,
              progress |-> Progress(collected, required), source |-> "mock"]

\* A call of _generate_mock_question as the call sites write it.
call_mock_question(collected, hp, stages) ==
    IF MockArgs = MockParams
    THEN Result("", generate_mock_question(collected, hp), stages)
    ELSE Result("TypeError", CompleteQuestion, stages)

\* _generate_claude_question
generate_claude_question(gen, collected, missing, required) ==
    LET s1 == <<"generate">>
    IN  IF gen.raises THEN Result("APIError", CompleteQuestion, s1)
        ELSE IF gen.fmt = "garbage"
        THEN call_mock_question(collected, Len(required) # Len(REQUIRED_FIELDS), s1)
        \* result.get(...) on what is no dict
        ELSE IF gen.fmt # "object" THEN Result("AttributeError", CompleteQuestion, s1)
        ELSE Result("",
                    [field |-> IF "field" \in gen.keys THEN gen.field ELSE missing[1],
                     is_complete |-> FALSE,
                     progress |-> Progress(collected, required),
                     source |-> IF gen.typed THEN "generated" ELSE "mistyped"],
                    s1)

\* generate_next_question
generate_next_question(api_key, gen, collected, hp) ==
    LET required == IF hp THEN FINANCIAL_FIELDS ELSE REQUIRED_FIELDS
        missing == Missing(required, collected)
    IN  IF missing = <<>> THEN Result("", CompleteQuestion, <<>>)
        ELSE IF ~api_key THEN call_mock_question(collected, hp, <<>>)
        ELSE LET r == generate_claude_question(gen, collected, missing, required)
             IN  IF r.exc # "" THEN call_mock_question(collected, hp, r.stages) ELSE r

\* ------------------------------------------------------------------ inputs
UserIds == {1}

\* The answers of the spec's end-to-end scenario, as the parser extracts them.
Baseline ==
    [age |-> 20, gender |-> 1, year_in_school |-> 2, major |-> 0,
     monthly_income |-> 2300, financial_aid |-> 0, tuition |-> 800, housing |-> 800,
     food |-> 420, transportation |-> 100, books_supplies |-> 50, entertainment |-> 300,
     personal_care |-> 150, technology |-> 80, health_wellness |-> 100,
     miscellaneous |-> 215, preferred_payment_method |-> 2]

\* The same answers given by somebody of another age, gender, year, major and
\* payment method.
OtherProfile ==
    [Baseline EXCEPT !["age"] = 30, !["gender"] = 0, !["year_in_school"] = 4,
                     !["major"] = 1, !["preferred_payment_method"] = 1]

ParserText(fmt, obj) == [raises |-> FALSE, safe |-> TRUE, fmt |-> fmt, obj |-> obj]

\* What messages.create may do in the parser: raise, or return a text.
ParserGens ==
    {[raises |-> TRUE, safe |-> TRUE, fmt |-> "object", obj |-> Baseline],
     [raises |-> FALSE, safe |-> FALSE, fmt |-> "object", obj |-> Baseline],
     ParserText("garbage", Baseline),
     ParserText("null", Baseline),
     ParserText("list", Baseline),
     ParserText("object", Baseline),
     ParserText("object", OtherProfile),
     ParserText("object", [Baseline EXCEPT !["food"] = -5]),
     ParserText("object", [OtherProfile EXCEPT !["age"] = 15]),
     ParserText("object", [k \in FieldNames \ {"gender"} |-> OtherProfile[k]])}

GeneratedText(raises, safe, fmt, keys, typed, updates) ==
    [raises |-> raises, safe |-> safe, fmt |-> fmt, keys |-> keys, typed |-> typed,
     field_updates |-> updates]

\* What messages.create may do in a call that asks for the keys `required`:
\* raise, or return a text that is unsafe, not JSON, JSON that is no object, an
\* object without a required key, an object with a value of the wrong type.
BadTexts(required, part) ==
    {GeneratedText(TRUE, TRUE, "object", required, TRUE, <<>>),
     GeneratedText(FALSE, FALSE, "object", required, TRUE, <<>>),
     GeneratedText(FALSE, TRUE, "garbage", {}, TRUE, <<>>),
     GeneratedText(FALSE, TRUE, "number", {}, TRUE, <<>>),
     GeneratedText(FALSE, TRUE, "list", required, TRUE, <<>>),
     GeneratedText(FALSE, TRUE, "object", part, TRUE, <<>>),
     GeneratedText(FALSE, TRUE, "object", required, FALSE, <<>>)}

GoodText(required, updates) == GeneratedText(FALSE, TRUE, "object", required, TRUE, updates)

\* What messages.create may do in the summarizer.
SummaryGens == BadTexts(SummaryRequired, {"key_points"}) \cup {GoodText(SummaryRequired, <<>>)}

\* The field updates a generated teacher response may carry.
FoodUpdates == {<<[field |-> "food", value |-> 350]>>, <<[field |-> "food", value |-> 420]>>}

AgeUpdates == {<<[field |-> "age", value |-> 30]>>}

RejectedUpdates == {<<[field |-> "age", value |-> 15]>>, <<[field |-> "food", value |-> -5]>>}

UnknownUpdates == {<<[field |-> "savings", value |-> 100]>>}

UpdateLists == {<<>>} \cup FoodUpdates \cup AgeUpdates \cup RejectedUpdates \cup UnknownUpdates

\* What messages.create may do in the teacher.
TeacherTexts(updates) == {GoodText(TeacherRequired, u) : u \in updates}

TeacherGens == BadTexts(TeacherRequired, {"explanation"}) \cup TeacherTexts(UpdateLists)

\* The model artifacts on disk and the draws of the scorer: the sigmoid and the
\* positive-class probability of the loaded models, the jitter of the heuristic.
MLEnvs ==
    {[artifacts |-> "absent", proba |-> 0, sigmoid |-> 0, jo |-> 50, js |-> -50],
     [artifacts |-> "present", proba |-> 1000, sigmoid |-> 990, jo |-> 0, js |-> 0],
     [artifacts |-> "present", proba |-> 0, sigmoid |-> 10, jo |-> 0, js |-> 0],
     [artifacts |-> "corrupt", proba |-> 1000, sigmoid |-> 990, jo |-> -50, js |-> 50]}

HeuristicEnvs == {e \in MLEnvs : e.artifacts = "absent"}

\* Every state of the artifacts with the ends of what the loaded models and the
\* two draws can give.
ScorerEnvs ==
    [artifacts : {"present", "absent", "corrupt"}, proba : {0, 1000},
     sigmoid : {1, 999}, jo : {-50, 50}, js : {-50, 50}]

\* Valid field sets: no resources at all, resources below, at and above the
\* spending, with and without aid, a small and a large discretionary part.
FieldSets ==
    {SnapshotData([Baseline EXCEPT !["monthly_income"] = i, !["financial_aid"] = a,
                                   !["entertainment"] = e, !["year_in_school"] = y]) :
        i \in {0, 700, 2300, 3015, 4000}, a \in {0, 500}, e \in {300, 1500}, y \in {2, 4}}

\* The field sets without aid.
UnaidedFieldSets == {data \in FieldSets : data["financial_aid"] = 0}

\* Lists of field updates with a name that is no snapshot field among them.
MixedUpdates ==
    {<<[field |-> "savings", value |-> 100], [field |-> "food", value |-> 350]>>,
     <<[field |-> "food", value |-> 350], [field |-> "savings", value |-> 100],
       [field |-> "food", value |-> 380]>>}

\* Texts handed to validate_json_response with the keys `required`: no JSON,
\* a number, null, a list of the keys, an empty list, an object with and without
\* the keys.
JsonTexts(required) ==
    {t \in BadTexts(required, {}) : ~t.raises}
        \cup {GoodText(required, <<>>),
              GeneratedText(FALSE, TRUE, "null", {}, TRUE, <<>>),
              GeneratedText(FALSE, TRUE, "list", {}, TRUE, <<>>)}

\* The messages of a conversation, and what messages.create may return for them:
\* no update, an update of food, an update out of range.
ChatMessages == {"I now spend about 350 on food", "How am I doing?"}

\* The snapshot a chat request names: the latest, or the first stored.
ChatSelections == {0, 1}

ChatGens ==
    TeacherTexts({<<>>, <<[field |-> "food", value |-> 350]>>,
                  <<[field |-> "food", value |-> -5]>>})

\* Messages handed to sanitize_user_input: up to three runs, short and long,
\* with whitespace and with the shortest and the longest injection pattern.
Runs == {Text(1), Text(1995), Text(2001), Space(1), Phrase(1), Phrase(4)}

RawMessages ==
    {<<>>} \cup {<<a>> : a \in Runs} \cup {<<a, b>> : a, b \in Runs}
           \cup {<<a, b, c>> : a, b, c \in Runs}

\* What messages.create may do in the survey.
SurveyText(fmt, keys, typed) ==
    [raises |-> FALSE, fmt |-> fmt, keys |-> keys, typed |-> typed, field |-> "food"]

SurveyGens ==
    {[raises |-> TRUE, fmt |-> "object", keys |-> {}, typed |-> TRUE, field |-> "food"],
     SurveyText("garbage", {}, TRUE),
     SurveyText("number", {}, TRUE),
     SurveyText("object", {"question"}, TRUE),
     SurveyText("object", {"field", "question"}, TRUE),
     SurveyText("object", {"field", "question"}, FALSE)}

\* The collected_fields of a next-question request: nothing, the names of a
\* group, every name, and lists that hold profile names and leave financial
\* names out.
CollectedInputs ==
    {<<>>, PROFILE_FIELDS, FINANCIAL_FIELDS, REQUIRED_FIELDS,
     PROFILE_FIELDS \o SubSeq(FINANCIAL_FIELDS, 1, 7),
     SubSeq(REQUIRED_FIELDS, 1, 16)}

\* Bodies of PUT /profile that pass the ProfileData ranges.
ProfileRequests ==
    {[NoProfile EXCEPT !["age"] = 30],
     [k \in ProfileKeys |-> OtherProfile[k]]}

\* Where the server's clock is: local time equal to UTC, or half a day behind it.
TimeZones == {"utc", "west"}

\* The requests in flight of the interleaved specification.
Procs == {1, 2}

\* ------------------------------------------------------------------- state
VARIABLES
    clock,          \* the current tick
    tz,             \* the server's time zone
    api_key,        \* settings.anthropic_api_key is set
    users,          \* user id -> the profile fields of the users row
    snapshots,      \* the spending_snapshots rows, oldest first
    interactions,   \* the teacher_interactions rows, oldest first
    inflight,       \* process -> what a chat request between its read and its write holds
    lastResp        \* the last request and its response

vars == <<clock, tz, api_key, users, snapshots, interactions, inflight, lastResp>>

\* Time is counted in half days of the server's local clock; tick 0 is the second
\* half of day 0.  date.today() is the date of the local clock.
LocalDate(t) == (t + 1) \div 2

\* Snapshot.created_at is datetime.utcnow(): its date is the UTC date, which west
\* of UTC is a day ahead during the second half of the local day.
UtcDate(t) == IF tz = "west" THEN (t + 2) \div 2 ELSE LocalDate(t)

Response(op, user, status, cause) ==
    [op |-> op, user |-> user, status |-> status, cause |-> cause]

\* uuid4: an id no row holds
FreshId(rows) == CHOOSE i \in 1..(Len(rows) + 1) : \A j \in 1..Len(rows) : rows[j].id # i

RowsOf(rows, u) == LET mine(r) == r.user_id = u IN SelectSeq(rows, mine)

\* A row that holds the probabilities as percentages.
SnapshotInPercent(id, u, data, ml, summary, now) ==
    [id |-> id, user_id |-> u, data |-> data,
     overspending_prob |-> 100 * ml.overspending_prob,
     financial_stress_prob |-> 100 * ml.financial_stress_prob,
     summary |-> summary, created_at |-> now]

SpendingSnapshot(id, u, data, ml, summary, now) ==
    [id |-> id, user_id |-> u, data |-> data,
     overspending_prob |-> ml.overspending_prob,
     financial_stress_prob |-> ml.financial_stress_prob,
     summary |-> summary, created_at |-> now]

Idle == [pc |-> "idle"]

Init ==
    /\ clock = 0
    /\ tz \in TimeZones
    /\ api_key \in BOOLEAN
    /\ users = [u \in UserIds |-> NoProfile]
    /\ snapshots = <<>>
    /\ interactions = <<>>
    /\ inflight = [p \in Procs |-> Idle]
    /\ lastResp = Response("init", 0, 0, "")

\* ------------------------------------------------------------ POST /intake
\* The users table, had the request committed what its session held for user u.
Flushed(u, pending) == [users EXCEPT ![u] = pending]

\* The users table after a request that ends without db.commit(): what its
\* session held for user u is dropped with the session.
Dropped(u, pending) == users

\* submit_intake.  gen is what the parser's generation call does during the
\* request; the scorer's environment and the summarizer's generation call are
\* drawn from Envs and SGens; commit_ok is whether db.commit() succeeds.  Nothing
\* is written before db.commit(): the changes parse made to the User object live
\* in the session and are dropped with it when the request ends without a commit.
submit_intake(u, gen, Envs, SGens) ==
    \E p \in {parse(api_key, gen, users[u])} :
        IF p.exc # ""
        THEN /\ lastResp' =
                  IF p.exc = "ValueError"
                  THEN Response("intake", u, 422, "unprocessable_" \o p.detail)
                  ELSE IF p.exc = "RuntimeError" THEN Response("intake", u, 500, "generation_config")
                  ELSE IF p.exc = "APIError" THEN Response("intake", u, 500, "generation_call")
                  ELSE Response("intake", u, 500, "generation_output")
             /\ users' = Dropped(u, p.user)
             /\ UNCHANGED <<clock, tz, api_key, snapshots, interactions, inflight>>
        ELSE \E env \in Envs, sgen \in SGens, commit_ok \in BOOLEAN :
                LET ml == predict(p.data, env)
                    summary == summarize(api_key, sgen, p.data, compute(p.data))
                IN  IF commit_ok
                    THEN /\ Len(snapshots) < MaxSnapshots
                         /\ snapshots' =
                               Append(snapshots,
                                      SpendingSnapshot(FreshId(snapshots), u, p.data, ml,
                                                       summary.out, clock))
                         /\ users' = [users EXCEPT ![u] = p.user]
                         /\ lastResp' = Response("intake", u, 200, "")
                         /\ UNCHANGED <<clock, tz, api_key, interactions, inflight>>
                    ELSE /\ lastResp' = Response("intake", u, 500, "persistence")
                         /\ users' = Dropped(u, p.user)
                         /\ UNCHANGED <<clock, tz, api_key, snapshots, interactions, inflight>>

\* -------------------------------------------------------- POST /teacher/chat
Messages == {"I now spend about 350 on food"}

\* Every update written into the field set, whatever its name.
ApplyAny(data, updates) ==
    LET names == {updates[i].field : i \in 1..Len(updates)}
        last(f) == CHOOSE i \in 1..Len(updates) :
                      /\ updates[i].field = f
                      /\ \A j \in (i + 1)..Len(updates) : updates[j].field # f
    IN  [f \in DOMAIN data \cup names |->
            IF f \in names THEN updates[last(f)].value ELSE data[f]]

\* for update in field_updates: if update.field in updated_data: ... = int(update.value)
RECURSIVE ApplyUpdates(_, _)
ApplyUpdates(data, updates) ==
    IF updates = <<>> THEN data
    ELSE LET update == Head(updates)
             next == IF update.field \in DOMAIN data
                     THEN [data EXCEPT ![update.field] = update.value]
                     ELSE data
         IN  ApplyUpdates(next, Tail(updates))

\* The snapshot the request works on: the one named by snapshot_id (0 is a request
\* without one), else the user's latest by created_at.  The result is a set: empty
\* when there is none.
SelectSnapshot(rows, u, sel) ==
    LET mine == RowsOf(rows, u)
    IN  IF sel # 0 THEN {mine[i] : i \in {j \in 1..Len(mine) : mine[j].id = sel}}
        ELSE IF Len(mine) > 0 THEN {mine[Len(mine)]}
        ELSE {}

\* The same-day test of the merge step.
CreatedToday(snapshot, now) == UtcDate(snapshot.created_at) = LocalDate(now)

MergeDecision(snapshot, now) == IF CreatedToday(snapshot, now) THEN "overwrite" ELSE "create"

\* teacher_chat up to the field updates: the response it is heading for, the
\* snapshot selected and the candidate field set.
\*   updated  the generated response carries field updates
\*   target   the id of the snapshot selected
\*   data     the candidate field set
ChatPlan(u, rows, sel, gen) ==
    LET found == SelectSnapshot(rows, u, sel)
        snapshot == CHOOSE r \in found : TRUE
        t == generate_response(api_key, gen, snapshot.data)
        updated == ApplyUpdates(snapshot.data, t.out.field_updates)
        stop(status, cause) ==
            [status |-> status, cause |-> cause, updated |-> FALSE, target |-> 0,
             created_at |-> 0, data |-> Baseline, teacher |-> FallbackTeacherOutput]
    IN  IF found = {} THEN stop(IF sel # 0 THEN 404 ELSE 400, "precondition")
        ELSE IF t.exc # ""
        THEN stop(500, IF ~validate_financial_data(snapshot.data) THEN "invalid_financial_data"
                       ELSE IF ~api_key THEN "generation_config"
                       ELSE IF gen.raises THEN "generation_call"
                       ELSE "generation_output")
        ELSE IF t.out.field_updates = <<>>
        THEN [status |-> 200, cause |-> "", updated |-> FALSE, target |-> snapshot.id,
              created_at |-> snapshot.created_at, data |-> snapshot.data, teacher |-> t.out]
        ELSE IF ~SnapshotDataValid(updated) THEN stop(500, "range_validation")
        ELSE [status |-> 200, cause |-> "", updated |-> TRUE, target |-> snapshot.id,
              created_at |-> snapshot.created_at, data |-> SnapshotData(updated),
              teacher |-> t.out]

\* A merge step whose overwrite also stamps the row with the time of the write.
MergeRestamp(rows, u, decision, target, data, ml, summary, now) ==
    IF decision = "overwrite"
    THEN [i \in 1..Len(rows) |->
            IF rows[i].id = target
            THEN [rows[i] EXCEPT !.data = data,
                                 !.overspending_prob = ml.overspending_prob,
                                 !.financial_stress_prob = ml.financial_stress_prob,
                                 !.summary = summary,
                                 !.created_at = now]
            ELSE rows[i]]
    ELSE Append(rows, SpendingSnapshot(FreshId(rows), u, data, ml, summary, now))

\* The snapshot write of the merge step: setattr on the selected row, or a new row.
MergeWrite(rows, u, decision, target, data, ml, summary, now) ==
    IF decision = "overwrite"
    THEN [i \in 1..Len(rows) |->
            IF rows[i].id = target
            THEN [rows[i] EXCEPT !.data = data,
                                 !.overspending_prob = ml.overspending_prob,
                                 !.financial_stress_prob = ml.financial_stress_prob,
                                 !.summary = summary]
            ELSE rows[i]]
    ELSE Append(rows, SpendingSnapshot(FreshId(rows), u, data, ml, summary, now))

\* An interaction that references no snapshot.
UnlinkedInteraction(id, u, snapshot_id, msg, teacher) ==
    [id |-> id, user_id |-> u, snapshot_id |-> None, user_message |-> msg,
     teacher_response |-> teacher]

TeacherInteraction(id, u, snapshot_id, msg, teacher) ==
    [id |-> id, user_id |-> u, snapshot_id |-> snapshot_id, user_message |-> msg,
     teacher_response |-> teacher]

\* Save interaction: add, commit.
SaveInteraction(u, snapshot_id, msg, teacher, commit_ok, done) ==
    IF commit_ok
    THEN /\ Len(interactions) < MaxInteractions
         /\ interactions' =
               Append(interactions,
                      TeacherInteraction(FreshId(interactions), u, snapshot_id, msg, teacher))
         /\ lastResp' = Response("chat", u, 200, done)
    ELSE /\ interactions' = interactions
         /\ lastResp' = Response("chat", u, 500, "persistence")

\* The merge step and what follows it: the date test, the snapshot write and its
\* commit, the interaction and its commit.  plan is what the request read and
\* computed before.
MergeAndSave(u, msg, plan, ml, summary, commit1) ==
    LET decision == MergeDecision(plan, clock)
    IN  IF commit1
        THEN /\ decision = "create" => Len(snapshots) < MaxSnapshots
             /\ snapshots' = MergeWrite(snapshots, u, decision, plan.target,
                                        plan.data, ml, summary, clock)
             /\ \E commit2 \in BOOLEAN :
                   SaveInteraction(u,
                                   IF decision = "create" THEN FreshId(snapshots)
                                   ELSE plan.target,
                                   msg, plan.teacher, commit2, decision)
        ELSE /\ lastResp' = Response("chat", u, 500, "persistence")
             /\ UNCHANGED <<snapshots, interactions>>

\* teacher_chat, run from its first line to its last with no other request in
\* between.  gen is what the teacher's generation call does during the request.
teacher_chat(u, sel, msg, gen, Envs, SGens) ==
    \E plan \in {ChatPlan(u, snapshots, sel, gen)} :
        IF plan.status # 200
        THEN /\ lastResp' = Response("chat", u, plan.status, plan.cause)
             /\ UNCHANGED <<clock, tz, api_key, users, snapshots, interactions, inflight>>
        ELSE IF ~plan.updated
        THEN /\ \E commit2 \in BOOLEAN :
                    SaveInteraction(u, plan.target, msg, plan.teacher, commit2, "none")
             /\ UNCHANGED <<clock, tz, api_key, users, snapshots, inflight>>
        ELSE \E env \in Envs, sgen \in SGens, commit1 \in BOOLEAN :
                /\ MergeAndSave(u, msg, plan, predict(plan.data, env),
                                summarize(api_key, sgen, plan.data, compute(plan.data)).out,
                                commit1)
                /\ UNCHANGED <<clock, tz, api_key, users, inflight>>

\* teacher_chat of a request that shares the database with another request in
\* flight, in two steps.  chat_read: the handler from its first line to the
\* summarizer's return (it has read the snapshot and holds the candidate).
chat_read(p, u, sel, msg, gen, Envs, SGens) ==
    /\ inflight[p].pc = "idle"
    /\ \E plan \in {ChatPlan(u, snapshots, sel, gen)} :
          /\ plan.status = 200
          /\ plan.updated
          /\ \E env \in Envs, sgen \in SGens :
                inflight' =
                    [inflight EXCEPT ![p] =
                        [pc |-> "merge", user |-> u, msg |-> msg, plan |-> plan,
                         ml |-> predict(plan.data, env),
                         summary |-> summarize(api_key, sgen, plan.data,
                                               compute(plan.data)).out]]
    /\ lastResp' = Response("chat_read", u, 0, "")
    /\ UNCHANGED <<clock, tz, api_key, users, snapshots, interactions>>

\* chat_merge: the rest of the handler, from the date test on.
chat_merge(p) ==
    /\ inflight[p].pc # "idle"
    /\ \E r \in {inflight[p]}, commit1 \in BOOLEAN :
          MergeAndSave(r.user, r.msg, r.plan, r.ml, r.summary, commit1)
    /\ inflight' = [inflight EXCEPT ![p] = Idle]
    /\ UNCHANGED <<clock, tz, api_key, users>>

\* ------------------------------------------------- POST /survey/next-question
\* get_next_question: the service's result goes through NextQuestionResponse,
\* which rejects a field of the wrong type.
get_next_question(u, collected, gen) ==
    /\ \E r \in {generate_next_question(api_key, gen, collected, has_profile(users[u]))} :
          lastResp' =
              IF r.exc # ""
              THEN Response("survey", u, 500,
                            IF ~api_key THEN "generation_config"
                            ELSE IF gen.raises THEN "generation_call"
                            ELSE "generation_output")
              ELSE IF r.out.source = "mistyped"
              THEN Response("survey", u, 500, "generation_output")
              ELSE Response("survey", u, 200, r.out.source)
    /\ UNCHANGED <<clock, tz, api_key, users, snapshots, interactions, inflight>>

\* A profile update that stores the request as it is, absent fields included.
replace_profile(u, profile) ==
    /\ users' = [users EXCEPT ![u] = profile]
    /\ lastResp' = Response("profile", u, 200, "")
    /\ UNCHANGED <<clock, tz, api_key, snapshots, interactions, inflight>>

\* ------------------------------------------------------------- PUT /profile
update_profile(u, profile) ==
    /\ users' = [users EXCEPT ![u] =
                    [k \in ProfileKeys |-> IF profile[k] # None THEN profile[k] ELSE @[k]]]
    /\ lastResp' = Response("profile", u, 200, "")
    /\ UNCHANGED <<clock, tz, api_key, snapshots, interactions, inflight>>

\* ------------------------------------------------ DELETE /debug/clear-user-data
clear_user_data(u) ==
    LET others(r) == r.user_id # u
    IN  /\ interactions' = SelectSeq(interactions, others)
        /\ snapshots' = SelectSeq(snapshots, others)
        /\ users' = [users EXCEPT ![u] = NoProfile]
        /\ lastResp' = Response("clear", u, 200, "")
        /\ UNCHANGED <<clock, tz, api_key, inflight>>

\* Half a day passes.
Tick ==
    /\ clock < MaxTick
    /\ clock' = clock + 1
    /\ lastResp' = Response("tick", 0, 0, "")
    /\ UNCHANGED <<tz, api_key, users, snapshots, interactions, inflight>>

SnapshotIds == 0..MaxSnapshots

\* ------------------------------------------------------------ specifications
\* A server whose local time is UTC.
InitUtc == Init /\ tz = "utc"

PipelineSummary == {GoodText(SummaryRequired, <<>>)}

\* The request handlers that read or write the Profile, one request at a time,
\* on a server whose clock stands.
Next ==
    \/ \E u \in UserIds, gen \in ParserGens :
          submit_intake(u, gen, HeuristicEnvs, PipelineSummary)
    \/ \E u \in UserIds, sel \in SnapshotIds, msg \in Messages,
          gen \in TeacherTexts({<<>>} \cup AgeUpdates \cup RejectedUpdates) :
          teacher_chat(u, sel, msg, gen, HeuristicEnvs, PipelineSummary)
    \/ \E u \in UserIds, profile \in ProfileRequests : update_profile(u, profile)
    \/ \E u \in UserIds : clear_user_data(u)

Spec == InitUtc /\ [][Next]_vars

\* The handlers that call a generative service, with everything the generation
\* calls may do.
NextErrors ==
    \/ \E u \in UserIds, gen \in ParserGens :
          submit_intake(u, gen, HeuristicEnvs, PipelineSummary)
    \/ \E u \in UserIds, sel \in SnapshotIds, msg \in Messages,
          gen \in BadTexts(TeacherRequired, {"explanation"})
                  \cup TeacherTexts({<<>>} \cup RejectedUpdates \cup UnknownUpdates) :
          teacher_chat(u, sel, msg, gen, HeuristicEnvs, PipelineSummary)
    \/ \E u \in UserIds, collected \in CollectedInputs, gen \in SurveyGens :
          get_next_question(u, collected, gen)

SpecErrors == InitUtc /\ [][NextErrors]_vars

\* A summarizer whose generated text fails the safety check: the summary stored
\* is the fallback, which follows the figures.
DegradedSummary == {GeneratedText(FALSE, FALSE, "object", SummaryRequired, TRUE, <<>>)}

\* Intake and chat updates of the food figure over the days.
NextMerge ==
    \/ \E u \in UserIds :
          submit_intake(u, ParserText("object", Baseline), HeuristicEnvs, DegradedSummary)
    \/ \E u \in UserIds, sel \in SnapshotIds, msg \in Messages,
          gen \in TeacherTexts(FoodUpdates) :
          teacher_chat(u, sel, msg, gen, HeuristicEnvs, DegradedSummary)
    \/ Tick

SpecMerge == Init /\ [][NextMerge]_vars

SpecUtc == InitUtc /\ [][NextMerge]_vars

\* The day after one intake of the baseline answers.
InitConc ==
    /\ clock = 1
    /\ tz = "utc"
    /\ api_key = TRUE
    /\ users = [u \in UserIds |-> [k \in ProfileKeys |-> Baseline[k]]]
    /\ snapshots =
          <<SpendingSnapshot(1, 1, SnapshotData(Baseline),
                             predict(SnapshotData(Baseline), CHOOSE e \in HeuristicEnvs : TRUE),
                             generate_fallback_summary(compute(SnapshotData(Baseline))), 0)>>
    /\ interactions = <<>>
    /\ inflight = [p \in Procs |-> Idle]
    /\ lastResp = Response("intake", 1, 200, "")

\* Chat updates of the latest snapshot by requests that share the database.
NextConc ==
    \/ \E p \in Procs, u \in UserIds, msg \in Messages, gen \in TeacherTexts(FoodUpdates) :
          chat_read(p, u, 0, msg, gen, HeuristicEnvs, DegradedSummary)
    \/ \E p \in Procs : chat_merge(p)
    \/ Tick

SpecConc == InitConc /\ [][NextConc]_vars

\* Range-valid snapshots for the services: the baseline (a deficit), a balanced
\* one, a surplus, one with a figure above MAX_FIELD_VALUE.
ServiceData ==
    {SnapshotData(Baseline),
     SnapshotData([Baseline EXCEPT !["monthly_income"] = 3015]),
     SnapshotData([Baseline EXCEPT !["monthly_income"] = 4000]),
     SnapshotData([Baseline EXCEPT !["monthly_income"] = 2 * MAX_FIELD_VALUE])}

ServiceUsers ==
    {NoProfile, [NoProfile EXCEPT !["age"] = 30], [k \in ProfileKeys |-> OtherProfile[k]]}

\* A call of a generative service, with what it was given and what it returned.
Call(op, input, gen, result) == [op |-> op, input |-> input, gen |-> gen, result |-> result]

call_summarize(gen, data) ==
    /\ lastResp' = Call("summarize", data, gen, summarize(api_key, gen, data, compute(data)))
    /\ UNCHANGED <<clock, tz, api_key, users, snapshots, interactions, inflight>>

call_generate_response(gen, data) ==
    /\ lastResp' = Call("generate_response", data, gen, generate_response(api_key, gen, data))
    /\ UNCHANGED <<clock, tz, api_key, users, snapshots, interactions, inflight>>

call_parse(gen, user) ==
    /\ lastResp' = Call("parse", user, gen, parse(api_key, gen, user))
    /\ UNCHANGED <<clock, tz, api_key, users, snapshots, interactions, inflight>>

call_generate_next_question(gen, collected, hp) ==
    /\ lastResp' = Call("generate_next_question", <<collected, hp>>, gen,
                        generate_next_question(api_key, gen, collected, hp))
    /\ UNCHANGED <<clock, tz, api_key, users, snapshots, interactions, inflight>>

\* One cycle of a survey session: the client sends what it has collected and
\* gets the next question.
\*   hp         has_profile of the user
\*   collected  the collected_fields sent
\*   cycles     the questions the session was given before this call
collect_cycle(hp, collected, cycles, gen) ==
    /\ lastResp' = [op |-> "collect", hp |-> hp, collected |-> collected,
                    cycles |-> cycles, gen |-> gen,
                    result |-> generate_next_question(api_key, gen, collected, hp)]
    /\ UNCHANGED <<clock, tz, api_key, users, snapshots, interactions, inflight>>

\* The session starts with nothing collected.
start_collecting(hp, gen) ==
    /\ lastResp.op = "init"
    /\ collect_cycle(hp, <<>>, 0, gen)

\* The client adds the field of the question it was given to what it has
\* collected and asks for the next one.
continue_collecting(gen) ==
    /\ lastResp.op = "collect"
    /\ lastResp.result.exc = ""
    /\ ~lastResp.result.out.is_complete
    /\ lastResp.cycles < MaxCycles
    /\ LET field == lastResp.result.out.field
       IN  collect_cycle(lastResp.hp,
                         IF field \in SeqRange(lastResp.collected) THEN lastResp.collected
                         ELSE Append(lastResp.collected, field),
                         lastResp.cycles + 1, gen)

\* The scorer of one process.  Each request builds a SpendingRiskModelService
\* and calls predict on it once or more.
\*   models_loaded  _models_loaded of the instance at hand
\*   attempts       the joblib.load attempts and the missing-file findings of
\*                  the process so far
\*   loads          the attempts that ended with both models loaded
\*   failed         an attempt of the process has failed
\*   path           the path the last predict took
Scorer(models_loaded, attempts, loads, failed, path) ==
    [op |-> "scorer", models_loaded |-> models_loaded, attempts |-> attempts,
     loads |-> loads, failed |-> failed, path |-> path]

\* SpendingRiskModelService(): __init__
new_service ==
    /\ lastResp.op \in {"init", "scorer"}
    /\ lastResp' = IF lastResp.op = "init" THEN Scorer(FALSE, 0, 0, FALSE, "")
                   ELSE Scorer(FALSE, lastResp.attempts, lastResp.loads, lastResp.failed, "")
    /\ UNCHANGED <<clock, tz, api_key, users, snapshots, interactions, inflight>>

\* predict on the instance at hand: _load_models, then the path it leaves.
service_predict(artifacts) ==
    /\ lastResp.op = "scorer"
    /\ lastResp.attempts < MaxLoadAttempts
    /\ LET attempt == ~lastResp.models_loaded
           loaded == lastResp.models_loaded \/ load_models(artifacts)
       IN  lastResp' =
               Scorer(loaded,
                      lastResp.attempts + (IF attempt THEN 1 ELSE 0),
                      lastResp.loads + (IF attempt /\ loaded THEN 1 ELSE 0),
                      lastResp.failed \/ (attempt /\ ~loaded),
                      IF loaded THEN "model" ELSE "heuristic")
    /\ UNCHANGED <<clock, tz, api_key, users, snapshots, interactions, inflight>>

call_predict(data, env) ==
    /\ lastResp' = Call("predict", data, env, predict(data, env))
    /\ UNCHANGED <<clock, tz, api_key, users, snapshots, interactions, inflight>>

call_compute(data) ==
    /\ lastResp' = Call("compute", data, <<>>, compute(data))
    /\ UNCHANGED <<clock, tz, api_key, users, snapshots, interactions, inflight>>

call_validate_json_response(text, required) ==
    /\ lastResp' = Call("validate_json_response", required, text,
                        validate_json_response(text, required))
    /\ UNCHANGED <<clock, tz, api_key, users, snapshots, interactions, inflight>>

\* The field updates of teacher_chat applied to the fields of a snapshot.
call_field_updates(data, updates) ==
    /\ lastResp' = Call("field_updates", data, updates, ApplyUpdates(data, updates))
    /\ UNCHANGED <<clock, tz, api_key, users, snapshots, interactions, inflight>>

call_sanitize_user_input(message) ==
    /\ lastResp' = Call("sanitize_user_input", message, <<>>, sanitize_user_input(message))
    /\ UNCHANGED <<clock, tz, api_key, users, snapshots, interactions, inflight>>

\* The generative services, called one after another with every input.
NextServices ==
    \/ \E gen \in SummaryGens, data \in ServiceData : call_summarize(gen, data)
    \/ \E gen \in TeacherGens, data \in ServiceData : call_generate_response(gen, data)
    \/ \E gen \in ParserGens, user \in ServiceUsers : call_parse(gen, user)
    \/ \E gen \in SurveyGens, collected \in CollectedInputs, hp \in BOOLEAN :
          call_generate_next_question(gen, collected, hp)

SpecServices == InitUtc /\ [][NextServices]_vars

\* The scorer over the life of a process, with the artifacts coming and going.
NextScorer ==
    \/ new_service
    \/ \E artifacts \in {"present", "absent", "corrupt"} : service_predict(artifacts)

SpecScorer == InitUtc /\ [][NextScorer]_vars

\* Survey sessions, from the first question to the last.
NextCollect ==
    \/ \E hp \in BOOLEAN, gen \in SurveyGens : start_collecting(hp, gen)
    \/ \E gen \in SurveyGens : continue_collecting(gen)

SpecCollect == InitUtc /\ [][NextCollect]_vars

\* The artifacts are absent, or they load and the classifier is certain.
RiskEnvs == HeuristicEnvs \cup {e \in MLEnvs : e.artifacts = "present" /\ e.proba = 1000}

\* Intake and chat updates of the latest snapshot over the days, scored by the
\* trained models or by the heuristic.
NextRisk ==
    \/ \E u \in UserIds :
          submit_intake(u, ParserText("object", Baseline), RiskEnvs, DegradedSummary)
    \/ \E u \in UserIds, msg \in Messages, gen \in TeacherTexts(FoodUpdates) :
          teacher_chat(u, 0, msg, gen, RiskEnvs, DegradedSummary)
    \/ Tick

\* Without the API key no request stores a snapshot.
InitRisk == InitUtc /\ api_key = TRUE

SpecRisk == InitRisk /\ [][NextRisk]_vars

\* Intake and a conversation over the days: chat messages on any snapshot, with
\* and without field updates.
NextChat ==
    \/ \E u \in UserIds :
          submit_intake(u, ParserText("object", Baseline), HeuristicEnvs, DegradedSummary)
    \/ \E u \in UserIds, sel \in ChatSelections, msg \in ChatMessages, gen \in ChatGens :
          teacher_chat(u, sel, msg, gen, HeuristicEnvs, DegradedSummary)
    \/ Tick

SpecChat == InitRisk /\ [][NextChat]_vars

\* The scorer, the analytics and the guards, called with every input.
NextFunctions ==
    \/ \E data \in UnaidedFieldSets, env \in ScorerEnvs : call_predict(data, env)
    \/ \E data \in FieldSets : call_compute(data)
    \/ \E message \in RawMessages : call_sanitize_user_input(message)
    \/ \E required \in {SummaryRequired, TeacherRequired} :
          \E text \in JsonTexts(required) : call_validate_json_response(text, required)
    \/ \E data \in {SnapshotData(Baseline), SnapshotData(OtherProfile)},
          updates \in UpdateLists \cup MixedUpdates :
          call_field_updates(data, updates)

\* None of the three reads the API key.
InitFunctions == InitUtc /\ api_key = TRUE

SpecFunctions == InitFunctions /\ [][NextFunctions]_vars

\* ------------------------------------------------------------------ claims
Last(seq) == seq[Len(seq)]

\* The response of a chat request whose field updates were applied and saved.
ChatUpdated(r) == r.op = "chat" /\ r.status = 200 /\ r.cause \in {"overwrite", "create"}

\* Two instants on one calendar date, on the local calendar and on the UTC one.
SameDate(a, b) == LocalDate(a) = LocalDate(b) /\ UtcDate(a) = UtcDate(b)

\* a is on an earlier calendar date than b, on both calendars.
EarlierDate(a, b) == LocalDate(a) < LocalDate(b) /\ UtcDate(a) < UtcDate(b)

HasRowToday(rows, u, now) ==
    \E i \in 1..Len(rows) : rows[i].user_id = u /\ SameDate(rows[i].created_at, now)

\* A row of the user created on the date of now shows the field updates of the
\* interaction saved last.
TodayHoldsUpdate(rows, log, u, now) ==
    \E i \in 1..Len(rows) :
        /\ rows[i].user_id = u
        /\ SameDate(rows[i].created_at, now)
        /\ ApplyUpdates(rows[i].data, Last(log).teacher_response.field_updates) = rows[i].data

\* C1: a chat-driven update made when the user already has a snapshot row created
\* on the current calendar date adds no row, and afterwards a row of that date
\* holds the values of that update -- however the request selected its snapshot
\* (the latest one, or one named by snapshot_id).
C1_SameDayUpdateKeepsOneRow ==
    [][(ChatUpdated(lastResp') /\ HasRowToday(snapshots, lastResp'.user, clock))
          => /\ Len(snapshots') = Len(snapshots)
             /\ TodayHoldsUpdate(snapshots', interactions', lastResp'.user, clock)]_vars

\* C2: a chat-driven update made on a later calendar date than every snapshot row
\* the user has adds exactly one row and leaves the rows that were there as they
\* were: fields, both probabilities and summary.
C2_LaterDayUpdateAddsRow ==
    [][(/\ ChatUpdated(lastResp')
        /\ RowsOf(snapshots, lastResp'.user) # <<>>
        /\ \A i \in 1..Len(snapshots) :
              snapshots[i].user_id = lastResp'.user
                  => EarlierDate(snapshots[i].created_at, clock))
          => /\ Len(snapshots') = Len(snapshots) + 1
             /\ \A i \in 1..Len(snapshots) : snapshots'[i] = snapshots[i]]_vars

\* C3: chat-driven updates of one user never leave two snapshot rows of that user
\* with the same calendar date, however the requests interleave.
C3_NoTwoRowsForOneDate ==
    \A i, j \in 1..Len(snapshots) :
        (i # j /\ snapshots[i].user_id = snapshots[j].user_id)
            => ~SameDate(snapshots[i].created_at, snapshots[j].created_at)

GuardsPass(gen) ==
    ~gen.raises /\ gen.safe /\ gen.fmt = "object" /\ gen.typed

\* C5: generate_response never raises to its caller, and whenever the data is
\* invalid, the API key is missing, the generation call fails or the generated
\* text fails a guard, it returns the static fallback with no field updates.
C5_TeacherNeverRaises ==
    lastResp.op = "generate_response"
        => /\ lastResp.result.exc = ""
           /\ ~(/\ api_key
                /\ validate_financial_data(lastResp.input)
                /\ GuardsPass(lastResp.gen)
                /\ TeacherRequired \subseteq lastResp.gen.keys)
                 => (/\ lastResp.result.out.kind = "fallback"
                     /\ lastResp.result.out.field_updates = <<>>)

\* C6: summarize returns a summary whatever the generation call does, and
\* whenever the generated text did not pass every guard stage (or no call was
\* made) the summary is the fallback of the analytics: the deficit wording with
\* the amount overspent when net_balance < 0, the surplus wording otherwise.
C6_SummarizeAlwaysReturns ==
    lastResp.op = "summarize"
        => LET analytics == compute(lastResp.input)
               out == lastResp.result.out
           IN  /\ lastResp.result.exc = ""
               /\ out.kind \in {"generated", "deficit", "surplus"}
               /\ ~(/\ api_key
                    /\ validate_financial_data(lastResp.input)
                    /\ GuardsPass(lastResp.gen)
                    /\ SummaryRequired \subseteq lastResp.gen.keys)
                     => /\ out.kind = IF analytics.net_balance < 0 THEN "deficit"
                                      ELSE "surplus"
                        /\ out.amount = Abs(analytics.net_balance)
                        /\ out.key_points = <<analytics.total_resources,
                                              analytics.total_spending,
                                              analytics.net_balance>>

\* summarize was called with the API key set and a generated text that is JSON
\* but no object, and answered with the surplus fallback.
C6_Reached ==
    /\ lastResp.op = "summarize"
    /\ api_key
    /\ lastResp.gen.fmt = "number"
    /\ validate_financial_data(lastResp.input)
    /\ lastResp.result.out.kind = "surplus"

\* The service returned something taken from the generated text.
Trusted(call) ==
    /\ call.result.exc = ""
    /\ \/ call.op = "parse"
       \/ call.op \in {"summarize", "generate_response"} /\ call.result.out.kind = "generated"
       \/ call.op = "generate_next_question"
             /\ call.result.out.source \in {"generated", "mistyped"}

\* The services that hand text written by the user to the generation call.
TakesUserText(op) == op \in {"parse", "generate_response", "generate_next_question"}

\* C7: whenever a generative service returns something taken from the generated
\* text, the call went through sanitize_user_input (where the user supplies
\* text), the generation, check_output_safety and validate_json_response, in that
\* order.
C7_EveryCallGuarded ==
    (lastResp.op \in {"parse", "summarize", "generate_response", "generate_next_question"}
        /\ Trusted(lastResp))
        => lastResp.result.stages =
              (IF TakesUserText(lastResp.op) THEN <<"sanitize_user_input">> ELSE <<>>)
                  \o <<"generate", "check_output_safety", "validate_json_response">>

\* The causes of an error response the user is meant to see: unprocessable
\* input (at the parse, or at a range validation), a failed write, and a request
\* for a snapshot that does not exist.
UserFacingCauses ==
    {"unprocessable_parse", "unprocessable_range", "range_validation", "persistence",
     "precondition"}

\* C8: an intake, chat or next-question request is answered with an error only
\* for unprocessable input or a failed write (or a snapshot that does not
\* exist); a missing API key, a failed generation call, an unsafe or malformed
\* generated text never is.
C8_OnlyInputAndPersistenceErrors ==
    (lastResp.op \in {"intake", "chat", "survey"} /\ lastResp.status >= 400)
        => lastResp.cause \in UserFacingCauses

\* All five profile fields are set.
ProfileComplete(user) == \A k \in ProfileKeys : user[k] # None

\* C9: a successful intake of a user with a complete Profile stores a snapshot
\* whose five profile fields are the Profile's and leaves the Profile unchanged;
\* a successful intake of any other user writes the five profile fields of the
\* stored snapshot, which are the parsed ones, into the Profile.
C9_ProfileReconciliation ==
    [][(lastResp'.op = "intake" /\ lastResp'.status = 200)
          => LET u == lastResp'.user
                 row == Last(snapshots')
             IN  /\ Len(snapshots') = Len(snapshots) + 1
                 /\ row.user_id = u
                 /\ ProfileComplete(users[u])
                       => /\ \A k \in ProfileKeys : row.data[k] = users[u][k]
                          /\ users'[u] = users[u]
                 /\ ~ProfileComplete(users[u])
                       => /\ \A k \in ProfileKeys : users'[u][k] = row.data[k]
                          /\ \E gen \in ParserGens :
                                /\ ProfileKeys \subseteq DOMAIN gen.obj
                                /\ \A k \in ProfileKeys : gen.obj[k] = row.data[k]]_vars

\* An intake of a user with a complete Profile stored a snapshot whose profile
\* fields (age 30 of the Profile, gender 1) are those of no parsed answer.
C9_Reached ==
    /\ lastResp.op = "intake"
    /\ lastResp.status = 200
    /\ ProfileComplete(users[lastResp.user])
    /\ Last(snapshots).data["age"] = 30
    /\ Last(snapshots).data["gender"] = 1

\* C10: once all five profile fields of a user are set, no intake submission and
\* no chat message changes any of them, whatever its outcome.
C10_CompleteProfileIsStable ==
    [][\A u \in UserIds :
          (ProfileComplete(users[u]) /\ lastResp'.op \in {"intake", "chat"})
              => users'[u] = users[u]]_vars

\* A chat message changed the age of a snapshot of a user with a complete
\* Profile, whose age is another one.
C10_Reached ==
    /\ ChatUpdated(lastResp)
    /\ ProfileComplete(users[lastResp.user])
    /\ \E i \in 1..Len(snapshots) :
          /\ snapshots[i].user_id = lastResp.user
          /\ snapshots[i].data["age"] = 30
          /\ users[lastResp.user]["age"] = 20

\* The required fields of a session, in taxonomy order.
RequiredOf(hp) == IF hp THEN FINANCIAL_FIELDS ELSE PROFILE_FIELDS \o FINANCIAL_FIELDS

\* C11: in a survey session every cycle before the last returns, without
\* raising, a question for a field not yet collected, and the cycle that returns
\* is_complete comes after exactly 17 questions without a Profile and after
\* exactly 12 with one.
C11_CollectorCompletesInRequiredCycles ==
    lastResp.op = "collect"
        => LET needed == Len(RequiredOf(lastResp.hp))
               out == lastResp.result.out
           IN  /\ lastResp.result.exc = ""
               /\ out.is_complete => lastResp.cycles = needed
               /\ ~out.is_complete
                     => /\ lastResp.cycles < needed
                        /\ out.field \in SeqRange(RequiredOf(lastResp.hp))
                        /\ out.field \notin SeqRange(lastResp.collected)

\* C12: generate_next_question returns is_complete = TRUE, with progress 1.0 and
\* no field, when every required field (the 12 financial ones with a Profile, the
\* 5 profile ones and the 12 financial ones without) is among the collected ones,
\* and returns is_complete = FALSE in every other case.
C12_CompleteExactlyWhenNothingMissing ==
    lastResp.op = "generate_next_question"
        => LET collected == lastResp.input[1]
               required == RequiredOf(lastResp.input[2])
               out == lastResp.result.out
           IN  /\ lastResp.result.exc = ""
               /\ out.is_complete = (SeqRange(required) \subseteq SeqRange(collected))
               /\ out.is_complete => (out.progress = 1000 /\ out.field = "")

\* C13: whichever path predict takes, both probabilities it returns lie in
\* [0.05, 0.95].
C13_ProbabilitiesWithinBounds ==
    lastResp.op = "predict"
        => /\ lastResp.result.overspending_prob \in 50..950
           /\ lastResp.result.financial_stress_prob \in 50..950

\* C14: when an artifact is absent or fails to load, predict returns what the
\* heuristic returns for the same input and the same draws.
C14_NoArtifactMeansHeuristic ==
    (lastResp.op = "predict" /\ lastResp.gen.artifacts \in {"absent", "corrupt"})
        => lastResp.result = mock_predict(lastResp.input, lastResp.gen)

\* predict was called with artifacts that fail to load and returned a stress
\* probability that is not the one the classifier would have given.
C14_Reached ==
    /\ lastResp.op = "predict"
    /\ lastResp.gen.artifacts = "corrupt"
    /\ lastResp.gen.proba = 1000
    /\ lastResp.result.financial_stress_prob < 1000

\* C15: compute returns net_balance = total_resources - total_spending, with
\* the resources and the spending of its input; overspending_amount and
\* savings_potential are never negative, both are 0 when net_balance is 0, and
\* exactly one of them is not 0 otherwise.
C15_BalanceSplitsOneWay ==
    lastResp.op = "compute"
        => LET data == lastResp.input
               a == lastResp.result
           IN  /\ a.total_resources = data["monthly_income"] + data["financial_aid"]
               /\ a.total_spending = TotalSpending(data)
               /\ a.net_balance = a.total_resources - a.total_spending
               /\ a.overspending_amount >= 0
               /\ a.savings_potential >= 0
               /\ a.net_balance = 0
                     <=> (a.overspending_amount = 0 /\ a.savings_potential = 0)
               /\ a.net_balance # 0
                     => ((a.overspending_amount # 0) # (a.savings_potential # 0))

\* compute was given more spending than resources and returned the amount
\* overspent with no savings potential.
C15_Reached ==
    /\ lastResp.op = "compute"
    /\ lastResp.result.net_balance < 0
    /\ lastResp.result.overspending_amount = -lastResp.result.net_balance
    /\ lastResp.result.savings_potential = 0

\* C16: when monthly_income + financial_aid is 0, the five shares compute
\* returns are all 0.
C16_NoResourcesNoShares ==
    (lastResp.op = "compute"
        /\ lastResp.input["monthly_income"] + lastResp.input["financial_aid"] = 0)
        => /\ lastResp.result.food_share = 0
           /\ lastResp.result.housing_share = 0
           /\ lastResp.result.entertainment_share = 0
           /\ lastResp.result.discretionary_share = 0
           /\ lastResp.result.tuition_share = 0

\* compute was given spending and no resources.
C16_Reached ==
    /\ lastResp.op = "compute"
    /\ lastResp.result.total_resources = 0
    /\ lastResp.input["food"] > 0
    /\ lastResp.result.total_spending > 0

\* A message sanitize_user_input has nothing to do to.
Clean(message) ==
    /\ Length(message) <= MAX_USER_MESSAGE_LENGTH
    /\ \A i \in 1..Len(message) : message[i].kind # "phrase"
    /\ message # <<>> => (Head(message).kind # "space"
                            /\ message[Len(message)].kind # "space")

\* C17: sanitize_user_input returns a clean message as it is, and never returns
\* more than 2000 characters and the three of the ellipsis.
C17_SanitizeKeepsCleanAndBounds ==
    lastResp.op = "sanitize_user_input"
        => /\ Clean(lastResp.input) => lastResp.result = lastResp.input
           /\ Length(lastResp.result) <= MAX_USER_MESSAGE_LENGTH + Len("...")

\* A message of more than 2000 characters with an injection pattern on the cut
\* came back 2003 characters long.
C17_Reached ==
    /\ lastResp.op = "sanitize_user_input"
    /\ Length(lastResp.input) > MAX_USER_MESSAGE_LENGTH
    /\ \E i \in 1..Len(lastResp.input) : lastResp.input[i].kind = "phrase"
    /\ Length(lastResp.result) = MAX_USER_MESSAGE_LENGTH + Len("...")

\* C18: every row of spending_snapshots holds an overspending_prob and a
\* financial_stress_prob in [0, 1].
C18_StoredProbabilitiesInUnitInterval ==
    \A i \in 1..Len(snapshots) :
        /\ snapshots[i].overspending_prob \in 0..1000
        /\ snapshots[i].financial_stress_prob \in 0..1000

\* A chat update overwrote one of two snapshots, and a snapshot with the updated
\* food figure holds a stress probability of 1 from the trained classifier.
C18_Reached ==
    /\ lastResp.op = "chat"
    /\ lastResp.status = 200
    /\ lastResp.cause = "overwrite"
    /\ Len(snapshots) >= 2
    /\ \E i \in 1..Len(snapshots) :
          /\ snapshots[i].financial_stress_prob = 1000
          /\ snapshots[i].data["food"] # Baseline["food"]

\* The first required field that is not collected.
FirstUncollected(call) ==
    LET open(f) == f \notin SeqRange(call.input[1])
    IN  Head(SelectSeq(RequiredOf(call.input[2]), open))

\* Something is still to collect.
Incomplete(call) ==
    ~(SeqRange(RequiredOf(call.input[2])) \subseteq SeqRange(call.input[1]))

\* C19: when a field is still to collect and there is no API key, the generation
\* call raises or the generated text is no JSON, generate_next_question does not
\* raise and returns the canned question of the first missing field.
C19_CannedQuestionOnFailure ==
    (/\ lastResp.op = "generate_next_question"
     /\ Incomplete(lastResp)
     /\ (~api_key \/ lastResp.gen.raises \/ lastResp.gen.fmt = "garbage"))
        => /\ lastResp.result.exc = ""
           /\ lastResp.result.out.source = "mock"
           /\ lastResp.result.out.field = FirstUncollected(lastResp)

\* C20: whenever generate_next_question returns is_complete = FALSE, the field
\* it returns is the first required field, in taxonomy order, that is not
\* collected.
C20_NextFieldIsFirstMissing ==
    (/\ lastResp.op = "generate_next_question"
     /\ lastResp.result.exc = ""
     /\ ~lastResp.result.out.is_complete)
        => lastResp.result.out.field = FirstUncollected(lastResp)

\* C21: over the life of a process the models are loaded at most once, and once
\* a load attempt has failed no predict call attempts to load again.
C21_LoadsOnceAndPinsOnFailure ==
    [][(lastResp.op = "scorer" /\ lastResp'.op = "scorer")
          => /\ lastResp'.loads <= 1
             /\ lastResp.failed => lastResp'.attempts = lastResp.attempts]_vars

C23_AnalyticsFigures ==
    lastResp.op = "compute"
        => LET f == lastResp.input
               a == lastResp.result
               spending == f["tuition"] + f["housing"] + f["food"] + f["transportation"]
                           + f["books_supplies"] + f["entertainment"] + f["personal_care"]
                           + f["technology"] + f["health_wellness"] + f["miscellaneous"]
               net == f["monthly_income"] + f["financial_aid"] - spending
           IN  /\ a.total_resources = f["monthly_income"] + f["financial_aid"]
               /\ a.total_spending = spending
               /\ a.net_balance = net
               /\ a.is_overspending = (net < 0)
               /\ a.overspending_amount = (IF -net > 0 THEN -net ELSE 0)
               /\ a.savings_potential = (IF net > 0 THEN net ELSE 0)
               /\ (/\ f["monthly_income"] = 2300 /\ f["financial_aid"] = 0
                   /\ <<f["tuition"], f["housing"], f["food"], f["transportation"],
                        f["books_supplies"], f["entertainment"], f["personal_care"],
                        f["technology"], f["health_wellness"], f["miscellaneous"]>>
                      = <<800, 800, 420, 100, 50, 300, 150, 80, 100, 215>>)
                     => /\ a.total_spending = 3015
                        /\ a.net_balance = -715
                        /\ a.is_overspending
                        /\ a.overspending_amount = 715
                        /\ a.savings_potential = 0

\* compute was given the field set of the example.
C23_Reached ==
    /\ lastResp.op = "compute"
    /\ lastResp.input["monthly_income"] = 2300
    /\ lastResp.input["financial_aid"] = 0
    /\ lastResp.input["entertainment"] = 300
    /\ lastResp.result.total_spending = 3015
    /\ lastResp.result.overspending_amount = 715

\* C24: validate_json_response returns for every text without raising, and
\* returns is_valid = False whenever the text is no JSON, is JSON that is no
\* object, or is an object without one of the required fields.
C24_ValidationIsTotal ==
    lastResp.op = "validate_json_response"
        => /\ lastResp.result.exc = ""
           /\ (lastResp.gen.fmt # "object" \/ ~(lastResp.input \subseteq lastResp.gen.keys))
                 => ~lastResp.result.ok

\* C25: applying field updates to a field set adds no field, changes a field
\* only to the value of an update that names it, gives every field an update
\* names a value of such an update, and changes nothing when no update names a
\* snapshot field.
C25_OnlyKnownFieldsUpdated ==
    lastResp.op = "field_updates"
        => LET data == lastResp.input
               updates == lastResp.gen
               out == lastResp.result
               ValuesFor(f) == {updates[i].value :
                                   i \in {j \in 1..Len(updates) : updates[j].field = f}}
           IN  /\ DOMAIN out = FieldNames
               /\ \A f \in FieldNames :
                     /\ out[f] # data[f] => out[f] \in ValuesFor(f)
                     /\ ValuesFor(f) # {} => out[f] \in ValuesFor(f)
               /\ (\A i \in 1..Len(updates) : updates[i].field \notin FieldNames)
                     => out = data

\* A list with an update of "savings", which is no snapshot field, and updates
\* of "food" was applied: food holds the last value and nothing else changed.
C25_Reached ==
    /\ lastResp.op = "field_updates"
    /\ \E i \in 1..Len(lastResp.gen) : lastResp.gen[i].field = "savings"
    /\ lastResp.result["food"] = 380
    /\ lastResp.result = [lastResp.input EXCEPT !["food"] = 380]

\* C26: a chat request that returns 200 appends one interaction and leaves the
\* interactions before it as they were; the interaction holds the request's
\* message and the teacher output returned, and its snapshot_id is the id of
\* the row the request added when it added one, else the id of the row it
\* selected, which is still a row of the user.
C26_OneInteractionPerChat ==
    [][(lastResp'.op = "chat" /\ lastResp'.status = 200)
       => \A u \in UserIds, sel \in ChatSelections, msg \in ChatMessages, gen \in ChatGens :
          teacher_chat(u, sel, msg, gen, HeuristicEnvs, DegradedSummary)
          => LET selected == CHOOSE r \in SelectSnapshot(snapshots, u, sel) : TRUE
                 new == Last(interactions')
             IN  /\ Len(interactions') = Len(interactions) + 1
                 /\ SubSeq(interactions', 1, Len(interactions)) = interactions
                 /\ new.user_id = u
                 /\ new.user_message = msg
                 /\ new.teacher_response = generate_response(api_key, gen, selected.data).out
                 /\ \A i \in 1..Len(interactions) : interactions[i].id # new.id
                 /\ IF Len(snapshots') > Len(snapshots)
                    THEN /\ Len(snapshots') = Len(snapshots) + 1
                         /\ new.snapshot_id = Last(snapshots').id
                         /\ \A i \in 1..Len(snapshots) : snapshots[i].id # new.snapshot_id
                    ELSE /\ new.snapshot_id = selected.id
                         /\ \E i \in 1..Len(snapshots') :
                               /\ snapshots'[i].id = selected.id
                               /\ snapshots'[i].user_id = u]_vars

\* A second chat message created a snapshot: its interaction references the new
\* row, the first interaction still references the row of the intake.
C26_Reached ==
    /\ lastResp.op = "chat" /\ lastResp.status = 200 /\ lastResp.cause = "create"
    /\ Len(interactions) = 2
    /\ Len(snapshots) = 2
    /\ interactions[2].snapshot_id = snapshots[2].id
    /\ interactions[1].snapshot_id = snapshots[1].id
    /\ interactions[1].teacher_response.field_updates = <<>>

\* C27: a step that is no clear-user-data request leaves every complete
\* profile complete: intake, chat and profile update never set a profile field
\* of a complete profile to null.
C27_ProfileStaysComplete ==
    [][\A u \in UserIds :
          (ProfileComplete(users[u]) /\ lastResp'.op # "clear")
              => ProfileComplete(users'[u])]_vars

\* A profile update that names the age alone was applied to the profile stored
\* by the intake: the age is the request's, the other fields are the intake's.
C27_Reached ==
    /\ lastResp.op = "profile"
    /\ ProfileComplete(users[1])
    /\ users[1]["age"] = 30
    /\ users[1]["gender"] = Baseline["gender"]
    /\ users[1]["major"] = Baseline["major"]

\* C28: whenever generate_next_question returns, progress is between 0 and 1,
\* and it is 1 only together with is_complete.
C28_ProgressWithinUnitInterval ==
    (lastResp.op = "generate_next_question" /\ lastResp.result.exc = "")
        => LET out == lastResp.result.out
           IN  /\ out.progress >= 0
               /\ out.progress <= 1000
               /\ out.progress = 1000 => out.is_complete

\* The rows of `after` that differ from the row of `before` at their place.
RowsChanged(before, after) == {i \in 1..Len(before) : after[i] # before[i]}

\* C29: a chat request that does not add a row leaves the number of rows as it
\* was, every row with its id, owner and created_at, and changes one row at
\* most; when it answers 200 after an overwrite, the row changed is the one its
\* interaction references.  A chat update that follows an overwrite and starts
\* from the overwritten row overwrites that row again.
C29_OverwriteKeepsTheRow ==
    [][lastResp'.op = "chat"
       => /\ Len(snapshots') = Len(snapshots)
             => /\ \A i \in 1..Len(snapshots) :
                      /\ snapshots'[i].id = snapshots[i].id
                      /\ snapshots'[i].user_id = snapshots[i].user_id
                      /\ snapshots'[i].created_at = snapshots[i].created_at
                /\ Cardinality(RowsChanged(snapshots, snapshots')) <= 1
          /\ (lastResp'.status = 200 /\ lastResp'.cause = "overwrite")
             => /\ Len(snapshots') = Len(snapshots)
                /\ \A i \in RowsChanged(snapshots, snapshots') :
                      snapshots[i].id = Last(interactions').snapshot_id
          /\ (/\ lastResp.op = "chat" /\ lastResp.status = 200
              /\ lastResp.cause = "overwrite"
              /\ ChatUpdated(lastResp'))
             => \A u \in UserIds, sel \in SnapshotIds, msg \in Messages,
                   gen \in TeacherTexts(FoodUpdates) :
                   (/\ teacher_chat(u, sel, msg, gen, HeuristicEnvs, DegradedSummary)
                    /\ \E r \in SelectSnapshot(snapshots, u, sel) :
                          r.id = Last(interactions).snapshot_id)
                   => /\ lastResp'.cause = "overwrite"
                      /\ Last(interactions').snapshot_id = Last(interactions).snapshot_id]_vars

\* Two chat updates in a row overwrote the row of the intake, the second half a
\* day after the row was created: the table holds that one row, with the date
\* of the intake.
C29_Reached ==
    /\ lastResp.op = "chat" /\ lastResp.status = 200 /\ lastResp.cause = "overwrite"
    /\ Len(snapshots) = 1
    /\ Len(interactions) = 2
    /\ interactions[1].teacher_response.field_updates # <<>>
    /\ interactions[1].snapshot_id = snapshots[1].id
    /\ interactions[2].snapshot_id = snapshots[1].id
    /\ snapshots[1].created_at < clock
    /\ snapshots[1].data["food"] = 350

\* A field set with a negative amount or a profile field outside its range.
OutOfRange(d) ==
    \/ \E f \in MoneyKeys : d[f] < 0
    \/ d["age"] \notin 16..100
    \/ d["gender"] \notin 0..3
    \/ d["year_in_school"] \notin 0..4
    \/ d["major"] \notin 0..8
    \/ d["preferred_payment_method"] \notin 0..3

\* C30: a chat request whose teacher output carries field updates that put the
\* selected snapshot's fields out of range answers 500 and leaves the
\* snapshots, the interactions and the users as they were.
C30_RangeViolationIsTerminal ==
    [][lastResp'.op = "chat"
       => \A u \in UserIds, sel \in ChatSelections,
             gen \in {g \in ChatGens : g.field_updates # <<>>} :
             (\E r \in SelectSnapshot(snapshots, u, sel) :
                 LET out == generate_response(api_key, gen, r.data).out
                 IN  /\ out.field_updates # <<>>
                     /\ OutOfRange(ApplyUpdates(r.data, out.field_updates)))
             => \A msg \in ChatMessages :
                   teacher_chat(u, sel, msg, gen, HeuristicEnvs, DegradedSummary)
                   => /\ lastResp'.status = 500
                      /\ UNCHANGED <<snapshots, interactions, users>>]_vars

\* A chat request of a user with a snapshot and an interaction failed on the
\* ranges; no stored snapshot holds a negative amount.
C30_Reached ==
    /\ lastResp.op = "chat" /\ lastResp.status = 500
    /\ lastResp.cause = "range_validation"
    /\ Len(snapshots) >= 1
    /\ Len(interactions) >= 1
    /\ \A i \in 1..Len(snapshots) : ~OutOfRange(snapshots[i].data)

====
